---- MODULE Spec2Model ----
(***************************************************************************)
(* The decoder of textcopy.c (the header-aware variant): main() reads a    *)
(* 3-byte header before every line and then decodes the line byte by byte. *)
(* Bytes are the integers 0..255; the output is the sequence of bytes      *)
(* written to stdout.                                                      *)
(***************************************************************************)
EXTENDS Integers, Sequences, FiniteSets, TLC

(* Bounds of the model. *)
MaxLen == 7
WildLen == 5
LiveLen == 6

(* Bytes the bounded inputs are built from: the null byte 0x00, the        *)
(* end-of-stream marker 0x1F, the printable 'A' (0x41), the line           *)
(* terminator 0xC8 and the unknown byte 0xD0.                              *)
Alpha == {0, 31, 65, 200, 208}
WildAlpha == {0, 65, 208}
Byte == 0..255

EOF == -1
NL == 10
SP == 32

VARIABLES input, pos, unget, out, pc, in_file, in_line, ll, head, c,
          branch, ll0, out0, nhead, hstarts, hpos, cpos, lstart

vars == <<input, pos, unget, out, pc, in_file, in_line, ll, head, c,
          branch, ll0, out0, nhead, hstarts, hpos, cpos, lstart>>

(* ---- the input stream: file contents, read position, ungetc buffer ---- *)
Min(a, b) == IF a < b THEN a ELSE b
Avail == unget \o SubSeq(input, pos + 1, Len(input))
Take(s, n) == SubSeq(s, 1, Min(n, Len(s)))

(* Consuming n bytes takes them from the ungetc buffer first. *)
Consume(n) ==
    LET k == Min(n, Len(unget))
    IN  /\ unget' = SubSeq(unget, k + 1, Len(unget))
        /\ pos' = Min(pos + (n - k), Len(input))

(* fgetc: the next byte, or EOF *)
fgetc == IF Avail = <<>> THEN EOF ELSE Avail[1]

(* ---- pure helpers ---- *)
(* the test written as  c <= 0x7f  *)
IsPrintableOff(b) == (b >= 32) /\ (b <= 127)

IsPrintable(b) == (b >= 32) /\ (b < 127)

(* the loop written as  i <= c  *)
LoopCountOff(b) == IF b >= 128 THEN b - 127 ELSE 0

(* number of iterations of  for (int i = 0x80; i < c; i++)  *)
LoopCount(b) == IF b > 128 THEN b - 128 ELSE 0

Spaces(n) == [i \in 1..n |-> SP]

(* "%02X": uppercase digits *)
HexDigitUpper(n) == IF n < 10 THEN 48 + n ELSE 65 + (n - 10)

(* "%02x": two lowercase hex digits *)
HexDigit(n) == IF n < 10 THEN 48 + n ELSE 97 + (n - 10)
Escape(b) == <<91, HexDigit(b \div 16), HexDigit(b % 16), 93>>

Init0 ==
    /\ pos = 0
    /\ unget = <<>>
    /\ out = <<>>
    /\ pc = "header"
    /\ in_file = TRUE
    /\ in_line = FALSE
    /\ ll = 0
    /\ head = <<>>
    /\ c = EOF
    /\ branch = "init"
    /\ ll0 = 0
    /\ out0 = 0
    /\ nhead = 0
    /\ hstarts = <<>>
    /\ hpos = {}
    /\ cpos = {}
    /\ lstart = 0

(* Inputs over Alpha of length at most MaxLen. *)
Init ==
    /\ \E m \in 0..MaxLen : input \in [1..m -> Alpha]
    /\ Init0

(* Inputs over Alpha of length at most LiveLen, for the liveness check and *)
(* the comparison of runs.                                                 *)
InitLive ==
    /\ \E m \in 0..LiveLen : input \in [1..m -> Alpha]
    /\ Init0

(* Inputs over WildAlpha of length at most WildLen in which one position   *)
(* holds an arbitrary byte of 0..255.                                      *)
InitWild ==
    /\ \E m \in 1..WildLen : \E s \in [1..m -> WildAlpha] :
          \E i \in 1..m : \E b \in Byte : input = [s EXCEPT ![i] = b]
    /\ Init0

(* ---- header read, lines 14-24 ---- *)
(* a marker test that accepts 0x1F in any header position *)
IsMarkerAny(h) == h[1] = 31 \/ h[2] = 31 \/ h[3] = 31

(* head[2] == 0x1f *)
IsMarker(h) == h[3] = 31

(* Record of a header read: the stream offset it starts at and the file    *)
(* bytes that fread takes (a pushed-back byte is not taken from the file). *)
HeaderNote ==
    /\ hstarts' = Append(hstarts, pos - Len(unget))
    /\ hpos' = hpos \cup ((pos + 1)..Min(pos + 3 - Len(unget), Len(input)))
    /\ UNCHANGED cpos

Halt ==
    /\ pc' = "done"
    /\ UNCHANGED <<in_line, ll, c, ll0, out0, nhead, out, input, lstart>>

(* a short header read that still ends the output with a newline *)
HeaderShortNL ==
    /\ pc = "header"
    /\ Len(Avail) < 3
    /\ head' = Avail
    /\ Consume(3)
    /\ HeaderNote
    /\ branch' = "short"
    /\ pc' = "done"
    /\ out' = Append(out, NL)
    /\ UNCHANGED <<in_file, in_line, ll, c, ll0, out0, nhead, input, lstart>>

HeaderShort ==
    /\ pc = "header"
    /\ Len(Avail) < 3
    /\ head' = Avail
    /\ Consume(3)
    /\ HeaderNote
    /\ branch' = "short"
    /\ UNCHANGED in_file
    /\ Halt

(* an end-of-stream marker that emits a trailing newline before halting *)
HeaderMarkerNL ==
    /\ pc = "header"
    /\ Len(Avail) >= 3
    /\ IsMarker(Avail)
    /\ head' = Take(Avail, 3)
    /\ Consume(3)
    /\ HeaderNote
    /\ in_file' = FALSE
    /\ branch' = "marker"
    /\ pc' = "done"
    /\ out' = Append(out, NL)
    /\ UNCHANGED <<in_line, ll, c, ll0, out0, nhead, input, lstart>>

HeaderMarker ==
    /\ pc = "header"
    /\ Len(Avail) >= 3
    /\ IsMarker(Avail)
    /\ head' = Take(Avail, 3)
    /\ Consume(3)
    /\ HeaderNote
    /\ in_file' = FALSE
    /\ branch' = "marker"
    /\ Halt

(* the header dump of lines 16-18 left enabled *)
HeaderLineDump ==
    /\ pc = "header"
    /\ Len(Avail) >= 3
    /\ ~IsMarker(Avail)
    /\ head' = Take(Avail, 3)
    /\ Consume(3)
    /\ HeaderNote
    /\ in_line' = TRUE
    /\ ll' = 0
    /\ pc' = "line"
    /\ branch' = "header"
    /\ nhead' = nhead + 1
    /\ out' = out \o <<HexDigit(Avail[1] \div 16), HexDigit(Avail[1] % 16), SP,
                       HexDigit(Avail[2] \div 16), HexDigit(Avail[2] % 16), SP,
                       HexDigit(Avail[3] \div 16), HexDigit(Avail[3] % 16), SP>>
    /\ lstart' = Len(out)
    /\ UNCHANGED <<input, in_file, c, ll0, out0>>

(* a header read that leaves its third byte in the stream *)
HeaderLinePeek ==
    /\ pc = "header"
    /\ Len(Avail) >= 3
    /\ ~IsMarker(Avail)
    /\ head' = Take(Avail, 3)
    /\ Consume(2)
    /\ HeaderNote
    /\ in_line' = TRUE
    /\ ll' = 0
    /\ pc' = "line"
    /\ branch' = "header"
    /\ nhead' = nhead + 1
    /\ lstart' = Len(out)
    /\ UNCHANGED <<input, out, in_file, c, ll0, out0>>

HeaderLine ==
    /\ pc = "header"
    /\ Len(Avail) >= 3
    /\ ~IsMarker(Avail)
    /\ head' = Take(Avail, 3)
    /\ Consume(3)
    /\ HeaderNote
    /\ in_line' = TRUE
    /\ ll' = 0
    /\ pc' = "line"
    /\ branch' = "header"
    /\ nhead' = nhead + 1
    /\ lstart' = Len(out)
    /\ UNCHANGED <<input, out, in_file, c, ll0, out0>>

(* ---- one iteration of the inner loop, lines 25-66 ---- *)
Read ==
    /\ pc = "line"
    /\ c' = fgetc
    /\ ll0' = ll
    /\ out0' = Len(out)
    /\ cpos' = IF Avail = <<>> THEN cpos ELSE cpos \cup {pos + 1}
    /\ UNCHANGED <<input, head, nhead, hstarts, hpos, lstart>>

Continue == pc' = "line" /\ UNCHANGED <<in_line, in_file>>
EndLine == in_line' = FALSE /\ pc' = "header" /\ UNCHANGED in_file

(* end of input inside a line that still terminates the line *)
LineEofNL ==
    /\ Read
    /\ fgetc = EOF
    /\ in_file' = FALSE
    /\ pc' = "done"
    /\ branch' = "eof"
    /\ out' = Append(out, NL)
    /\ UNCHANGED <<pos, unget, ll, in_line>>

LineEof ==
    /\ Read
    /\ fgetc = EOF
    /\ in_file' = FALSE
    /\ pc' = "done"
    /\ branch' = "eof"
    /\ UNCHANGED <<pos, unget, out, ll, in_line>>

(* a printable branch without the  ll++  *)
PrintableNoCount ==
    /\ Read
    /\ fgetc # EOF
    /\ IsPrintable(fgetc)
    /\ Consume(1)
    /\ out' = Append(out, fgetc)
    /\ branch' = "printable"
    /\ UNCHANGED ll
    /\ Continue

Printable ==
    /\ Read
    /\ fgetc # EOF
    /\ IsPrintable(fgetc)
    /\ Consume(1)
    /\ ll' = ll + 1
    /\ out' = Append(out, fgetc)
    /\ branch' = "printable"
    /\ Continue

(* a null branch that pushes the byte back though the read left it in the *)
(* stream *)
NullRewind ==
    /\ Read
    /\ fgetc = 0
    /\ unget' = <<0>>
    /\ out' = Append(out, NL)
    /\ branch' = "null"
    /\ UNCHANGED <<ll, pos>>
    /\ EndLine

(* a null branch that ends the line without writing the newline *)
NullSilent ==
    /\ Read
    /\ fgetc = 0
    /\ unget' = <<0>> \o SubSeq(unget, 2, Len(unget))
    /\ pos' = IF unget = <<>> THEN pos + 1 ELSE pos
    /\ branch' = "null"
    /\ UNCHANGED <<out, ll>>
    /\ EndLine

(* a null branch that consumes the byte instead of pushing it back *)
NullConsume ==
    /\ Read
    /\ fgetc = 0
    /\ Consume(1)
    /\ out' = Append(out, NL)
    /\ branch' = "null"
    /\ UNCHANGED ll
    /\ EndLine

(* a null branch that pushes the byte back but stays in the line *)
NullStuck ==
    /\ Read
    /\ fgetc = 0
    /\ unget' = <<0>> \o SubSeq(unget, 2, Len(unget))
    /\ pos' = IF unget = <<>> THEN pos + 1 ELSE pos
    /\ branch' = "null"
    /\ UNCHANGED <<out, ll>>
    /\ Continue

Null ==
    /\ Read
    /\ fgetc = 0
    /\ unget' = <<0>> \o SubSeq(unget, 2, Len(unget))
    /\ pos' = IF unget = <<>> THEN pos + 1 ELSE pos
    /\ out' = Append(out, NL)
    /\ branch' = "null"
    /\ UNCHANGED ll
    /\ EndLine

Other == fgetc # EOF /\ ~IsPrintable(fgetc) /\ fgetc # 0

(* a line-start positioning loop without the  ll++  *)
StartPositionNoCount ==
    /\ Read
    /\ Other
    /\ ll = 0
    /\ fgetc < 200
    /\ Consume(1)
    /\ out' = out \o Spaces(LoopCount(fgetc))
    /\ branch' = "start_pos"
    /\ UNCHANGED ll
    /\ Continue

StartPosition ==
    /\ Read
    /\ Other
    /\ ll = 0
    /\ fgetc < 200
    /\ Consume(1)
    /\ ll' = ll + LoopCount(fgetc)
    /\ out' = out \o Spaces(LoopCount(fgetc))
    /\ branch' = "start_pos"
    /\ Continue

(* a 0xC8 branch that writes the newline but leaves in_line set *)
StartTerminatorStay ==
    /\ Read
    /\ Other
    /\ ll = 0
    /\ fgetc = 200
    /\ Consume(1)
    /\ out' = Append(out, NL)
    /\ branch' = "start_term"
    /\ UNCHANGED ll
    /\ Continue

StartTerminator ==
    /\ Read
    /\ Other
    /\ ll = 0
    /\ fgetc = 200
    /\ Consume(1)
    /\ out' = Append(out, NL)
    /\ branch' = "start_term"
    /\ UNCHANGED ll
    /\ EndLine

StartEscape ==
    /\ Read
    /\ Other
    /\ ll = 0
    /\ fgetc > 200
    /\ Consume(1)
    /\ out' = out \o Escape(fgetc)
    /\ branch' = "start_esc"
    /\ UNCHANGED ll
    /\ Continue

(* the mid-line test written with the line-start bound  c < 0xc8  *)
MidPositionWide ==
    /\ Read
    /\ Other
    /\ ll # 0
    /\ fgetc < 200
    /\ Consume(1)
    /\ ll' = ll + LoopCount(fgetc)
    /\ out' = out \o Spaces(LoopCount(fgetc))
    /\ branch' = "mid_pos"
    /\ Continue

MidPosition ==
    /\ Read
    /\ Other
    /\ ll # 0
    /\ fgetc < 137
    /\ Consume(1)
    /\ ll' = ll + LoopCount(fgetc)
    /\ out' = out \o Spaces(LoopCount(fgetc))
    /\ branch' = "mid_pos"
    /\ Continue

(* a mid-line terminator that writes the newline but leaves in_line set *)
MidTerminatorStay ==
    /\ Read
    /\ Other
    /\ ll # 0
    /\ fgetc >= 137
    /\ Consume(1)
    /\ out' = Append(out, NL)
    /\ branch' = "mid_term"
    /\ UNCHANGED ll
    /\ Continue

MidTerminator ==
    /\ Read
    /\ Other
    /\ ll # 0
    /\ fgetc >= 137
    /\ Consume(1)
    /\ out' = Append(out, NL)
    /\ branch' = "mid_term"
    /\ UNCHANGED ll
    /\ EndLine

Next ==
    \/ HeaderShort
    \/ HeaderMarker
    \/ HeaderLine
    \/ LineEof
    \/ Printable
    \/ Null
    \/ StartPosition
    \/ StartTerminator
    \/ StartEscape
    \/ MidPosition
    \/ MidTerminator

Spec == Init /\ [][Next]_vars
SpecWild == InitWild /\ [][Next]_vars
SpecShort == InitLive /\ [][Next]_vars

(* ---- main() as a function from the input to the final output ---- *)
(* s: file contents, p: bytes taken from the file, u: ungetc buffer,       *)
(* o: output so far, l: the counter ll                                     *)
RECURSIVE DecodeHeader(_, _, _, _), DecodeLine(_, _, _, _)
DecodeHeader(s, p, u, o) ==
    LET av == u \o SubSeq(s, p + 1, Len(s))
    IN  IF Len(av) < 3 THEN o
        ELSE IF IsMarker(av) THEN o
        ELSE DecodeLine(s, p + 3 - Len(u), o, 0)

DecodeLine(s, p, o, l) ==
    IF p >= Len(s) THEN o
    ELSE LET b == s[p + 1]
         IN  IF IsPrintable(b) THEN DecodeLine(s, p + 1, Append(o, b), l + 1)
             ELSE IF b = 0 THEN DecodeHeader(s, p + 1, <<0>>, Append(o, NL))
             ELSE IF l = 0
                  THEN IF b < 200
                       THEN DecodeLine(s, p + 1, o \o Spaces(LoopCount(b)),
                                       l + LoopCount(b))
                       ELSE IF b = 200
                            THEN DecodeHeader(s, p + 1, <<>>, Append(o, NL))
                            ELSE DecodeLine(s, p + 1, o \o Escape(b), l)
             ELSE IF b < 137
                  THEN DecodeLine(s, p + 1, o \o Spaces(LoopCount(b)),
                                  l + LoopCount(b))
                  ELSE DecodeHeader(s, p + 1, <<>>, Append(o, NL))

Decode(s) == DecodeHeader(s, 0, <<>>, <<>>)

(* The loops run to completion: a step that can be taken is taken. *)
FairSpec == InitLive /\ [][Next]_vars /\ WF_vars(Next)

TypeOK ==
    /\ pos \in 0..Len(input)
    /\ Len(unget) <= 1
    /\ pc \in {"header", "line", "done"}
    /\ ll >= 0

(* ---- properties ---- *)
Halted == pc = "done"
Written == SubSeq(out', Len(out) + 1, Len(out'))
Extends == Len(out') >= Len(out) /\ SubSeq(out', 1, Len(out)) = out

(* C1: for every input the decoder eventually reaches its halted state;   *)
(* the pushed-back 0x00 does not make it loop.                             *)
C1_Totality == <>Halted

(* a run that pushed a 0x00 back, read it as a header byte and halted *)
C1_Witness ==
    /\ Halted
    /\ branch = "short"
    /\ nhead >= 1
    /\ Len(head) >= 1
    /\ head[1] = 0
    /\ Len(out) >= 1

(* C2: every output byte is printable ASCII or newline; each step writes  *)
(* nothing, a printable input byte, one newline, a run of spaces or one    *)
(* complete escape "[xx]"; a byte outside 0x20-0x7E is never copied raw.   *)
HexChars == {48, 49, 50, 51, 52, 53, 54, 55, 56, 57, 97, 98, 99, 100, 101, 102}
C2_OutputAlphabet ==
    /\ [](\A i \in 1..Len(out) : out[i] \in (32..126) \cup {10})
    /\ [][/\ Extends
          /\ \/ Written = <<>>
             \/ pc = "line" /\ fgetc \in 32..126 /\ Written = <<fgetc>>
             \/ Written = <<10>>
             \/ \A i \in 1..Len(Written) : Written[i] = 32
             \/ /\ Len(Written) = 4
                /\ Written[1] = 91
                /\ Written[2] \in HexChars
                /\ Written[3] \in HexChars
                /\ Written[4] = 93
          /\ (fgetc \notin 32..126 => Written # <<fgetc>>)]_vars

(* non-printable bytes were read at line start and mid-line and the       *)
(* output holds an escape *)
C2_Witness ==
    /\ Halted
    /\ Len(input) = 5
    /\ input[4] = 208
    /\ input[5] = 127
    /\ out = <<91, 100, 48, 93>>

(* C3: a header whose third byte is 0x1F halts at once, writing nothing;  *)
(* once halted nothing is written or read, whatever follows the header.    *)
C3_TerminatorPrecedence ==
    [][/\ (pc = "header" /\ Len(Avail) >= 3 /\ Avail[3] = 31)
            => (Halted' /\ out' = out /\ Len(Avail') = Len(Avail) - 3)
       /\ Halted => (Halted' /\ out' = out /\ pos' = pos /\ unget' = unget)]_vars

(* halted at a marker header after an earlier line wrote output, with     *)
(* input left unread *)
C3_Witness ==
    /\ Halted
    /\ branch = "marker"
    /\ nhead >= 1
    /\ out = <<10>>
    /\ pos < Len(input)

(* C4: a header read that finds fewer than 3 bytes halts and writes       *)
(* nothing; inputs of length 0, 1 or 2 give empty output.                  *)
C4_ShortHeader ==
    /\ [][(pc = "header" /\ Len(Avail) < 3) => (Halted' /\ out' = out)]_vars
    /\ []((Len(input) < 3 /\ Halted) => out = <<>>)

(* a short header read made of the pushed-back 0x00 and one more byte *)
C4_Witness ==
    /\ Halted
    /\ branch = "short"
    /\ Len(head) = 2
    /\ head[1] = 0
    /\ out = <<65, 10>>

(* C5: end of input inside a line halts and leaves the output as it was   *)
(* before the failed read.                                                 *)
C5_EofMidLine ==
    [][(pc = "line" /\ Avail = <<>>) => (Halted' /\ out' = out)]_vars

(* input ran out after a printable byte: the output has no final newline *)
C5_Witness ==
    /\ Halted
    /\ branch = "eof"
    /\ ll > 0
    /\ out # <<>>
    /\ out[Len(out)] = 65

AllPrintable(s) == \A i \in 1..Len(s) : s[i] \in 32..126

(* C6 as stated: an input of printable bytes only is output unchanged. *)
C6_Original == (Halted /\ AllPrintable(input)) => out = input

(* C6: for an input of printable bytes only, the output is the input      *)
(* without its first three bytes (the header), otherwise unchanged.        *)
C6_PrintablePassThrough ==
    (Halted /\ AllPrintable(input)) => out = SubSeq(input, 4, Len(input))

(* a printable input longer than the header whose tail was copied *)
C6_Witness ==
    /\ Halted
    /\ AllPrintable(input)
    /\ Len(input) = 5
    /\ input[5] # 65
    /\ out = <<65, input[5]>>

(* C7 as stated: the input 41 00 42 yields 'A' and a newline. *)
C7_Original == (Halted /\ input = <<65, 0, 66>>) => out = <<65, 10>>

(* C7: the 3-byte input 41 00 42 is consumed as a header and yields        *)
(* nothing; 41 00 after a 3-byte header yields 'A' and a newline, and the  *)
(* next header read starts at the pushed-back 0x00, which is not emitted.  *)
C7_NullExample ==
    /\ (Halted /\ input = <<65, 0, 66>>) => (out = <<>> /\ head = input)
    /\ (/\ Halted
        /\ Len(input) = 5
        /\ input[3] # 31
        /\ input[4] = 65
        /\ input[5] = 0)
       => (out = <<65, 10>> /\ head = <<0>> /\ branch = "short")

(* 41 00 after the header 42 41 00, run to the end *)
C7_Witness ==
    /\ Halted
    /\ input = <<66, 65, 0, 65, 0>>
    /\ out = <<65, 10>>
    /\ head = <<0>>

(* C8: a byte c in 0x80..0xC7 read with the counter at zero writes exactly *)
(* c - 0x80 spaces and the line continues.                                 *)
C8_PositioningAtLineStart ==
    [][(pc = "line" /\ ll = 0 /\ fgetc \in 128..199)
         => /\ Extends
            /\ Len(Written) = fgetc - 128
            /\ \A i \in 1..Len(Written) : Written[i] = 32
            /\ pc' = "line"
            /\ in_line']_vars

(* 0x95 at line start produced exactly 21 spaces *)
C8_Witness ==
    /\ branch = "start_pos"
    /\ c = 149
    /\ ll0 = 0
    /\ Len(out) = out0 + 21
    /\ pc = "line"

(* C9: a byte c in 0xC9..0xFF read with the counter at zero writes '[',    *)
(* two lowercase hex digits of c and ']', keeps the line open and the      *)
(* counter at zero, so the byte after it is decoded by the line-start      *)
(* rules: 0x89..0xC7 expands to spaces, 0xC8 ends the line.                *)
HexText == <<48, 49, 50, 51, 52, 53, 54, 55, 56, 57, 97, 98, 99, 100, 101, 102>>
C9_UnknownByteEscape ==
    [][/\ (pc = "line" /\ ll = 0 /\ fgetc \in 201..255)
            => /\ out' = out \o <<91, HexText[(fgetc \div 16) + 1],
                                     HexText[(fgetc % 16) + 1], 93>>
               /\ (fgetc = 208 => Written = <<91, 100, 48, 93>>)
               /\ ll' = 0
               /\ pc' = "line"
               /\ in_line'
       /\ (pc = "line" /\ branch = "start_esc" /\ fgetc # EOF)
            => /\ branch' \in {"printable", "null", "start_pos",
                                "start_term", "start_esc"}
               /\ (fgetc \in 137..199
                     => (Written = Spaces(fgetc - 128) /\ pc' = "line"))
               /\ (fgetc = 200 => (Written = <<10>> /\ pc' = "header"))]_vars

(* an escape followed by a positioning byte of the line-start-only range *)
C9_Witness ==
    /\ branch = "start_pos"
    /\ pc = "line"
    /\ c = 144
    /\ Len(input) = 5
    /\ input[4] = 208
    /\ out = <<91, 100, 48, 93>> \o Spaces(16)

(* C10: the decoder halts only at a header read that finds fewer than 3    *)
(* bytes, at a header whose third byte is 0x1F, or at end of input inside  *)
(* a line; 0x1F elsewhere does not halt it.                                *)
C10_TerminationCauses ==
    [][(~Halted /\ Halted')
         => \/ pc = "header" /\ Len(Avail) < 3
            \/ pc = "header" /\ Len(Avail) >= 3 /\ Avail[3] = 31
            \/ pc = "line" /\ Avail = <<>>]_vars

(* 0x1F was the second byte of a header and was then read inside the       *)
(* second line, which is still being decoded *)
C10_Witness ==
    /\ pc = "line"
    /\ nhead = 2
    /\ head[2] = 31
    /\ c = 31
    /\ branch = "start_pos"
    /\ out = <<10>>

(* C11: a 0x00 read inside a line writes exactly one newline, ends the    *)
(* line and is pushed back; the next read is the header read, which takes  *)
(* it as its first byte, so the inner loop never sees it again. At most    *)
(* one byte is pending, it is 0x00, and the file position never moves back.*)
C11_NullInLine ==
    /\ [](/\ Len(unget) <= 1
          /\ unget # <<>> => (unget = <<0>> /\ pc = "header" /\ branch = "null")
          /\ pc = "line" => unget = <<>>)
    /\ [][/\ (pc = "line" /\ fgetc = 0)
               => /\ Extends
                  /\ Written = <<10>>
                  /\ unget' = <<0>>
                  /\ ~in_line'
                  /\ pc' = "header"
                  /\ Avail' = Avail
          /\ (pc = "header" /\ unget # <<>>)
               => /\ head'[1] = 0
                  /\ unget' = <<>>
                  /\ out' = out
                  /\ cpos' = cpos
          /\ pos' >= pos]_vars

(* a mid-line 0x00 ended the first line and became the first byte of the   *)
(* second header; the second line is being decoded *)
C11_Witness ==
    /\ pc = "line"
    /\ branch = "header"
    /\ nhead = 2
    /\ head[1] = 0
    /\ unget = <<>>
    /\ out = <<65, 10>>

(* C12 as stated: a byte 0x01..0x1F or 0x7F read with the counter at zero  *)
(* is written as the escape "[xx]", the line continues and the counter     *)
(* stays at zero.                                                          *)
C12_LowControlEscape ==
    [][(pc = "line" /\ ll = 0 /\ fgetc \in (1..31) \cup {127})
         => /\ out' = out \o <<91, HexText[(fgetc \div 16) + 1],
                                  HexText[(fgetc % 16) + 1], 93>>
            /\ ll' = 0
            /\ pc' = "line"]_vars

(* C13 as stated: the mid-line positioning range is 0x80..0x89. *)
C13_Original ==
    [][(pc = "line" /\ ll > 0 /\ fgetc \in 128..137)
         => /\ Extends
            /\ Written = Spaces(fgetc - 128)
            /\ pc' = "line"]_vars

(* C13: a byte c in 0x80..0x88 read with the counter above zero writes     *)
(* exactly c - 0x80 spaces and the line continues; 0x89 mid-line writes a  *)
(* newline and ends the line.                                              *)
C13_MidLinePositioning ==
    [][/\ (pc = "line" /\ ll > 0 /\ fgetc \in 128..136)
            => /\ Extends
               /\ Len(Written) = fgetc - 128
               /\ \A i \in 1..Len(Written) : Written[i] = 32
               /\ pc' = "line"
               /\ in_line'
       /\ (pc = "line" /\ ll > 0 /\ fgetc = 137)
            => (Written = <<10>> /\ pc' = "header")]_vars

(* 0x88 after a printable byte produced exactly 8 spaces *)
C13_Witness ==
    /\ branch = "mid_pos"
    /\ c = 136
    /\ ll0 = 1
    /\ pc = "line"
    /\ out = <<65>> \o Spaces(8)

(* C14 as stated: a non-printable byte outside 0x80..0x88 read with the    *)
(* counter above zero writes exactly one newline and ends the line.        *)
C14_MidLineTerminator ==
    [][(/\ pc = "line"
        /\ ll > 0
        /\ fgetc # EOF
        /\ fgetc \notin 32..126
        /\ fgetc \notin 128..136)
         => /\ Extends
            /\ Written = <<10>>
            /\ ~in_line'
            /\ pc' = "header"]_vars

(* The step after a line-start positioning byte follows the mid-line rules *)
(* (0x90 and 0xD0 end the line with a newline).                            *)
MidRulesAfterPositioning ==
    (pc = "line" /\ branch = "start_pos" /\ c \in 128..199 /\ fgetc # EOF)
      => /\ branch' \in {"printable", "null", "mid_pos", "mid_term"}
         /\ (fgetc \in {144, 208} => (Written = <<10>> /\ pc' = "header"))

(* C15 as stated: after any positioning byte in 0x80..0xC7 at line start   *)
(* the line is no longer at line start.                                    *)
C15_Original ==
    [][/\ (pc = "line" /\ ll = 0 /\ fgetc \in 128..199)
            => (ll' = fgetc - 128 /\ ll' > 0 /\ pc' = "line")
       /\ MidRulesAfterPositioning]_vars

(* C15: after a positioning byte in 0x81..0xC7 at line start the counter   *)
(* has grown by c - 0x80, the line is no longer at line start and the next  *)
(* byte is decoded by the mid-line rules; 0x80 writes nothing and leaves    *)
(* the line at line start.                                                 *)
C15_PositioningChangesState ==
    [][/\ (pc = "line" /\ ll = 0 /\ fgetc \in 129..199)
            => (ll' = fgetc - 128 /\ ll' > 0 /\ pc' = "line")
       /\ (pc = "line" /\ ll = 0 /\ fgetc = 128)
            => (ll' = 0 /\ out' = out /\ pc' = "line")
       /\ (pc = "line" /\ branch = "start_pos" /\ c \in 129..199
             /\ fgetc # EOF)
            => /\ branch' \in {"printable", "null", "mid_pos", "mid_term"}
               /\ (fgetc \in {144, 208}
                     => (Written = <<10>> /\ pc' = "header"))
       /\ (pc = "line" /\ branch = "start_pos" /\ c = 128 /\ fgetc = 208)
            => (Written = <<91, 100, 48, 93>> /\ pc' = "line")]_vars

(* 0x85 at line start wrote 5 spaces and the 0xD0 after it ended the line *)
C15_Witness ==
    /\ branch = "mid_term"
    /\ c = 208
    /\ ll0 = 5
    /\ Len(input) >= 5
    /\ input[4] = 133
    /\ out = Spaces(5) \o <<10>>
    /\ pc = "header"

(* C16: 0xC8 read with the counter at zero writes exactly one newline and  *)
(* ends the line, so the next read is a header read; 0xC8 read with the    *)
(* counter above zero does the same through the mid-line terminator.       *)
C16_ExplicitTerminator ==
    [][(pc = "line" /\ fgetc = 200)
         => /\ Extends
            /\ Written = <<10>>
            /\ ~in_line'
            /\ pc' = "header"
            /\ unget' = <<>>
            /\ branch' = (IF ll = 0 THEN "start_term" ELSE "mid_term")]_vars

(* 0xC8 at line start ended the first line and the next header was read *)
C16_Witness ==
    /\ pc = "line"
    /\ branch = "header"
    /\ nhead = 2
    /\ c = 200
    /\ ll0 = 0
    /\ out = <<10>>

(* Input positions that are the third byte of a header read, and all       *)
(* positions a header read consumed, a pushed-back byte included.          *)
ThirdBytes == {hstarts[k] + 3 : k \in 1..Len(hstarts)}
HeaderBytes ==
    {hstarts[k] + j : k \in 1..Len(hstarts), j \in 1..3} \cap (1..Len(input))

(* The final output does not change when the input byte at a position of   *)
(* H is replaced, a third header byte staying 0x1F or staying not 0x1F.    *)
OutputIgnores(H) ==
    \A i \in H : \A b \in Alpha :
        ((i \in ThirdBytes) => ((b = 31) <=> (input[i] = 31)))
          => Decode([input EXCEPT ![i] = b]) = out

(* C17 as stated: no byte consumed by a header read is decoded as line     *)
(* content or written, and the output does not depend on its value.        *)
C17_Original ==
    /\ HeaderBytes \cap cpos = {}
    /\ Halted => OutputIgnores(HeaderBytes)

(* C17: the bytes a header read takes from the file are never written and  *)
(* never decoded as line content, and inputs that differ only in such      *)
(* bytes (no third header byte changing to or from 0x1F) give the same     *)
(* output; the exception is a pushed-back 0x00, which ended the previous   *)
(* line before the header read consumed it.                                *)
C17_HeaderNotReused ==
    /\ [](hpos \cap cpos = {})
    /\ [](Halted => (out = Decode(input) /\ OutputIgnores(hpos)))
    /\ [](HeaderBytes \ hpos \subseteq {i \in cpos : input[i] = 0})
    /\ [][pc = "header" => out' = out]_vars

(* two header reads took five bytes from the file; the first line wrote *)
C17_Witness ==
    /\ Halted
    /\ Len(hstarts) = 2
    /\ Cardinality(hpos) = 5
    /\ HeaderBytes \ hpos = {4}
    /\ out = <<10>>

(* C18: inside a line the counter equals the number of printable bytes and *)
(* spaces written since the line's header read: the line's output is a run *)
(* of escapes followed by exactly ll such bytes. The counter is zero after *)
(* the header read, never decreases, and is left alone by escapes and by   *)
(* bytes that write nothing.                                               *)
C18_CounterInvariant ==
    /\ [](pc = "line" =>
            LET k == Len(out) - lstart - ll
            IN  /\ k >= 0
                /\ k % 4 = 0
                /\ \A j \in 0..((k \div 4) - 1) :
                      /\ out[lstart + 4 * j + 1] = 91
                      /\ out[lstart + 4 * j + 2] \in HexChars
                      /\ out[lstart + 4 * j + 3] \in HexChars
                      /\ out[lstart + 4 * j + 4] = 93
                /\ \A i \in (lstart + k + 1)..Len(out) : out[i] \in 32..126)
    /\ [][/\ (pc = "header" /\ pc' = "line") => (ll' = 0 /\ lstart' = Len(out))
          /\ pc = "line" =>
               /\ ll' >= ll
               /\ lstart' = lstart
               /\ IF fgetc \in 32..126 THEN ll' = ll + 1 /\ Written = <<fgetc>>
                  ELSE IF Written = <<>> \/ Written = <<10>> THEN ll' = ll
                  ELSE IF Len(Written) = 4 /\ Written[1] = 91 THEN ll' = ll
                  ELSE ll' = ll + Len(Written)]_vars

(* an escape and then five spaces were written on the line: the counter    *)
(* counts the spaces only *)
C18_Witness ==
    /\ pc = "line"
    /\ branch = "start_pos"
    /\ ll = 5
    /\ lstart = 0
    /\ out = <<91, 100, 48, 93>> \o Spaces(5)

(* C19: consecutive header reads start at least 3 bytes apart in the       *)
(* stream, with an inner read between them, so there are at most           *)
(* floor(input length / 3) + 1 header reads, and no more lines than that.  *)
C19_ProgressPerLine ==
    /\ \A k \in 2..Len(hstarts) : hstarts[k] >= hstarts[k - 1] + 3
    /\ \A k \in 2..Len(hstarts) :
          \E i \in cpos : hstarts[k - 1] + 3 < i /\ i <= hstarts[k] + 1
    /\ Len(hstarts) <= (Len(input) \div 3) + 1
    /\ nhead <= Len(hstarts)
    /\ pos - Len(unget) >= (IF hstarts = <<>> THEN 0 ELSE hstarts[Len(hstarts)])

(* three header reads on a 7-byte input, each line ended by a pushed-back  *)
(* 0x00: the bound floor(7 / 3) + 1 is met *)
C19_Witness ==
    /\ Halted
    /\ Len(input) = 7
    /\ hstarts = <<0, 3, 6>>
    /\ nhead = 2
    /\ out = <<10, 10>>

NewlineCount == Cardinality({i \in 1..Len(out) : out[i] = 10})

(* C20: a newline is written only by the step that ends a line (0x00, 0xC8 *)
(* at line start, or a terminator byte mid-line) and is all that step      *)
(* writes; the open line holds no newline; the output never has more       *)
(* newlines than headers read with a third byte other than 0x1F; halting   *)
(* writes nothing.                                                         *)
C20_NewlineDiscipline ==
    /\ [](NewlineCount <= nhead)
    /\ [](pc = "line" => \A i \in (lstart + 1)..Len(out) : out[i] # 10)
    /\ [][/\ Extends
          /\ (\E i \in 1..Len(Written) : Written[i] = 10)
               => /\ Written = <<10>>
                  /\ pc = "line"
                  /\ pc' = "header"
                  /\ ~in_line'
                  /\ \/ fgetc = 0
                     \/ ll = 0 /\ fgetc = 200
                     \/ ll > 0 /\ fgetc >= 137
          /\ (pc = "line" /\ pc' = "header") => Written = <<10>>
          /\ Halted' => out' = out]_vars

(* two lines, each ended by one newline: by 0x00 and by 0xC8 at line start *)
C20_Witness ==
    /\ pc = "header"
    /\ branch = "start_term"
    /\ nhead = 2
    /\ out = <<10, 10>>
    /\ head[1] = 0
====
